---- MODULE Spec2Model ----
(***************************************************************************)
(* Model of src/app.py, the "Green Building Materials Advisor" Streamlit   *)
(* page.  Streamlit re-executes the whole script top to bottom after every *)
(* widget interaction; st.session_state is the only state that survives a  *)
(* rerun.  Every action below is therefore one widget interaction followed *)
(* by one complete execution of the script (sidebar, upload column, submit *)
(* handler, results column).                                               *)
(*                                                                         *)
(* Optional Python values (None / a value) are sequences of length 0 or 1: *)
(* <<>> is None (or "key not in session_state"), <<v>> is the value v.     *)
(*                                                                         *)
(* The name/budget/tone widgets only feed the prompt text and are left out.*)
(***************************************************************************)
EXTENDS Integers, Sequences, FiniteSets, TLC

VARIABLES
    secrets,          \* st.secrets["openai"]["api_key"]: <<>> when the lookup raises
    env,              \* os.getenv("OPENAI_API_KEY"): <<>> when unset
    user_api_key,     \* sidebar text_input (a str, "" when blank)
    uploaded,         \* file_uploader + Image.open: <<>> or <<image>>
    analysis_result,  \* st.session_state.analysis_result: <<>> when the key is absent
    clicked,          \* the last script run was triggered by the Submit button
    response,         \* what the inference service answered in the last run (<<>>: not asked)
    sent,             \* requests sent to the service during the last run
    errors,           \* st.error messages of the submit handler / Requester in the last run
    success,          \* st.success("Analysis complete! ...") shown in the last run
    uncaught,         \* exception that aborted the last run: <<>> or <<class name>>
    rendered,         \* body given to st.markdown in the results column (last run)
    download,         \* data given to st.download_button (last run)
    latest,           \* history: text returned by the most recent successful submission
    previous          \* history: st.session_state.analysis_result before the last run

vars == <<secrets, env, user_api_key, uploaded, analysis_result, clicked, response,
          sent, errors, success, uncaught, rendered, download, latest, previous>>

-----------------------------------------------------------------------------
(* Bounds of the model *)

MaxChoices == 2     \* length of resp.choices the service may return
DimLow == 10        \* small image sides 1..DimLow
DimNear == 10       \* image sides within DimNear pixels of the 1024 limit

(* Program constants *)

MaxSide == 1024     \* max_size = (1024, 1024)
JpegQuality == 85   \* image.save(..., quality=85)

None == <<>>
Some(v) == <<v>>

\* Python truthiness of an optional string: None and "" are falsy.
Truthy(opt) == opt # None /\ opt[1] # ""

Abs(n) == IF n < 0 THEN -n ELSE n

-----------------------------------------------------------------------------
(* Input domains *)

SecretValues == {None, Some(""), Some("sk-secrets")}
EnvValues == {None, Some(""), Some("sk-env")}
UiKeys == {"", "sk-ui"}

Texts == {"", "alpha", "beta"}
Contents == {None} \cup {Some(t) : t \in Texts}      \* message.content: None or a str

Img(w, h, m) == [w |-> w, h |-> h, mode |-> m]

\* Uploads of the interactive session: a small and a large picture, in colour modes
\* Image.open produces for jpg/png files (RGB), png with alpha (RGBA), palette png (P).
Uploads == {Img(s[1], s[2], m) : s \in {<<800, 600>>, <<2048, 1536>>}, m \in {"RGB", "RGBA", "P"}}

\* Sides used to exercise the normalizer alone.
NormSides == (1..DimLow) \cup ((MaxSide - DimNear)..(MaxSide + DimNear))
             \cup {2 * MaxSide, 2 * MaxSide + 1, 3000, 4096, 5000}
NormUploads == {Img(w, h, m) : w \in NormSides, h \in NormSides, m \in {"RGB", "RGBA"}}

\* Exception classes the openai call can raise, with their base class.
ExcClasses == {"AuthenticationError", "RateLimitError", "PermissionDeniedError",
               "BadRequestError", "InternalServerError", "APIStatusError",
               "APIConnectionError", "APITimeoutError", "APIError",
               "OpenAIError", "IndexError", "ValueError", "OSError", "Exception"}

\* A service answer: either the call raises, or it returns resp.choices.
Raises(e) == [raises |-> Some(e), choices |-> <<>>]
Returns(cs) == [raises |-> None, choices |-> cs]
ChoiceLists == UNION {[1..n -> Contents] : n \in 0..MaxChoices}
Responses == {Raises(e) : e \in ExcClasses \ {"IndexError", "OSError"}}
             \cup {Returns(cs) : cs \in ChoiceLists}

-----------------------------------------------------------------------------
(* Credential resolution: get_api_key() and the sidebar's `or` *)

get_api_key_env_first(sec, ev) ==
    IF Truthy(ev) THEN ev ELSE sec

\* try: key = st.secrets[...]; if key: return key / except: pass; return os.getenv(...)
get_api_key(sec, ev) ==
    IF Truthy(sec) THEN sec ELSE ev

\* resolved_api_key = user_api_key or get_api_key()
resolved_api_key(ui, sec, ev) ==
    IF ui # "" THEN Some(ui) ELSE get_api_key(sec, ev)

-----------------------------------------------------------------------------
(* Image Normalizer: encode_image_to_base64 *)

FloorDiv(a, b) == a \div b
CeilDiv(a, b) == IF a % b = 0 THEN a \div b ELSE (a \div b) + 1
Max2(a, b) == IF a >= b THEN a ELSE b

\* PIL Image.thumbnail((x, y)) on a w x h image larger than the box:
\* preserve_aspect_ratio() keeps the side that fills the box and sets the other to
\* max(min(floor(v), ceil(v), key = distance of the resulting ratio from w/h), 1),
\* where v is the exact scaled side; min() returns its first argument on a tie.
\* The ratios are compared here by cross-multiplication.
thumbnail(w, h, x, y) ==
    IF x * h >= w * y
    THEN LET f == FloorDiv(y * w, h)
             c == CeilDiv(y * w, h)
             pick == IF Abs(w * y - f * h) <= Abs(w * y - c * h) THEN f ELSE c
         IN  <<Max2(pick, 1), y>>
    ELSE LET f == FloorDiv(x * h, w)
             c == CeilDiv(x * h, w)
             pick == IF f = 0 THEN f
                     ELSE IF Abs(w * f - x * h) * c <= Abs(w * c - x * h) * f THEN f ELSE c
         IN  <<x, Max2(pick, 1)>>

\* Modes the JPEG writer of image.save accepts; any other mode raises OSError
\* ("cannot write mode RGBA as JPEG").
JpegModes == {"1", "L", "RGB", "RGBX", "CMYK", "YCbCr"}

NeedsResizeBothOnly(w, h) == w > MaxSide /\ h > MaxSide

\* if image.size[0] > max_size[0] or image.size[1] > max_size[1]
NeedsResize(w, h) == w > MaxSide \/ h > MaxSide

\* Result of the call: raised = <<>> and the payload, or the exception raised.
encode_image_to_base64(image) ==
    LET size == IF NeedsResize(image.w, image.h)
                THEN thumbnail(image.w, image.h, MaxSide, MaxSide)
                ELSE <<image.w, image.h>>
    IN  IF image.mode \in JpegModes
        THEN [raised |-> None,
              payload |-> Some([format |-> "JPEG", quality |-> JpegQuality, size |-> size])]
        ELSE [raised |-> Some("OSError"), payload |-> None]

-----------------------------------------------------------------------------
(* Recommendation Requester: analyze_building_with_gpt4o *)

\* Base class of each exception class (openai's hierarchy and the builtins).
Base(e) ==
    CASE e \in {"AuthenticationError", "RateLimitError", "PermissionDeniedError",
                "BadRequestError", "InternalServerError"} -> "APIStatusError"
      [] e \in {"APIStatusError", "APIConnectionError"} -> "APIError"
      [] e = "APITimeoutError" -> "APIConnectionError"
      [] e = "APIError" -> "OpenAIError"
      [] OTHER -> "Exception"

RECURSIVE IsInstance(_, _)
IsInstance(e, cls) ==
    IF e = cls THEN TRUE
    ELSE IF e = "Exception" THEN FALSE
    ELSE IsInstance(Base(e), cls)

\* The st.error messages; the last two carry str(e), modelled by the class name.
MsgNoKey == <<"No API key configured.", "">>
MsgNoImage == <<"Please upload an image before submitting.", "">>
MsgAuth == <<"Authentication failed. Please check your OpenAI API key.", "">>
MsgRate == <<"Rate limit exceeded. Please try again later.", "">>
MsgApi(e) == <<"API error occurred: ", e>>
MsgUnexpected(e) == <<"An unexpected error occurred: ", e>>
MsgFailed == <<"Failed to analyze the image. Please try again.", "">>

ExceptClauseGeneralFirst(e) ==
    IF IsInstance(e, "APIError") THEN MsgApi(e)
    ELSE IF IsInstance(e, "AuthenticationError") THEN MsgAuth
    ELSE IF IsInstance(e, "RateLimitError") THEN MsgRate
    ELSE MsgUnexpected(e)

\* The except clauses, tried in source order.
ExceptClause(e) ==
    IF IsInstance(e, "AuthenticationError") THEN MsgAuth
    ELSE IF IsInstance(e, "RateLimitError") THEN MsgRate
    ELSE IF IsInstance(e, "APIError") THEN MsgApi(e)
    ELSE MsgUnexpected(e)

\* One client.chat.completions.create call; svc is the service's answer to it.
\* resp.choices[0] raises IndexError on an empty list, inside the try.
analyze_building_with_gpt4o(image_base64, api_key, svc) ==
    LET request == [api_key |-> api_key, image |-> image_base64, detail |-> "high"]
        exc == IF svc.raises # None THEN svc.raises
               ELSE IF svc.choices = <<>> THEN Some("IndexError")
               ELSE None
    IN  IF exc = None
        THEN [result |-> svc.choices[1], errors |-> <<>>, sent |-> <<request>>]
        ELSE [result |-> None, errors |-> <<ExceptClause(exc[1])>>, sent |-> <<request>>]

-----------------------------------------------------------------------------
(* The submit handler: body of `if st.button("Submit")` *)

Handled(result, errs, snt, ok, exc) ==
    [analysis_result |-> result, errors |-> errs, sent |-> snt, success |-> ok, uncaught |-> exc]

SubmitHandlerImageFirst(key, up, svc, slot) ==
    IF up = None
    THEN Handled(slot, <<MsgNoImage>>, <<>>, FALSE, None)
    ELSE IF ~Truthy(key)
    THEN Handled(slot, <<MsgNoKey>>, <<>>, FALSE, None)
    ELSE LET enc == encode_image_to_base64(up[1])
             call == analyze_building_with_gpt4o(enc.payload[1], key[1], svc)
         IN  IF enc.raised # None
             THEN Handled(slot, <<>>, <<>>, FALSE, enc.raised)
             ELSE IF Truthy(call.result)
             THEN Handled(call.result, call.errors, call.sent, TRUE, None)
             ELSE Handled(slot, call.errors \o <<MsgFailed>>, call.sent, FALSE, None)

SubmitHandlerStoreAlways(key, up, svc, slot) ==
    IF ~Truthy(key)
    THEN Handled(slot, <<MsgNoKey>>, <<>>, FALSE, None)
    ELSE IF up = None
    THEN Handled(slot, <<MsgNoImage>>, <<>>, FALSE, None)
    ELSE LET enc == encode_image_to_base64(up[1])
             call == analyze_building_with_gpt4o(enc.payload[1], key[1], svc)
         IN  IF enc.raised # None
             THEN Handled(slot, <<>>, <<>>, FALSE, enc.raised)
             ELSE IF Truthy(call.result)
             THEN Handled(call.result, call.errors, call.sent, TRUE, None)
             ELSE Handled(call.result, call.errors \o <<MsgFailed>>, call.sent, FALSE, None)

SubmitHandlerKeepFirst(key, up, svc, slot) ==
    IF ~Truthy(key)
    THEN Handled(slot, <<MsgNoKey>>, <<>>, FALSE, None)
    ELSE IF up = None
    THEN Handled(slot, <<MsgNoImage>>, <<>>, FALSE, None)
    ELSE LET enc == encode_image_to_base64(up[1])
             call == analyze_building_with_gpt4o(enc.payload[1], key[1], svc)
         IN  IF enc.raised # None
             THEN Handled(slot, <<>>, <<>>, FALSE, enc.raised)
             ELSE IF Truthy(call.result)
             THEN Handled(IF slot = None THEN call.result ELSE slot,
                          call.errors, call.sent, TRUE, None)
             ELSE Handled(slot, call.errors \o <<MsgFailed>>, call.sent, FALSE, None)

SubmitHandlerNoTruthTest(key, up, svc, slot) ==
    IF ~Truthy(key)
    THEN Handled(slot, <<MsgNoKey>>, <<>>, FALSE, None)
    ELSE IF up = None
    THEN Handled(slot, <<MsgNoImage>>, <<>>, FALSE, None)
    ELSE LET enc == encode_image_to_base64(up[1])
             call == analyze_building_with_gpt4o(enc.payload[1], key[1], svc)
         IN  IF enc.raised # None
             THEN Handled(slot, <<>>, <<>>, FALSE, enc.raised)
             ELSE IF call.result # None
             THEN Handled(call.result, call.errors, call.sent, TRUE, None)
             ELSE Handled(slot, call.errors \o <<MsgFailed>>, call.sent, FALSE, None)

\* if not resolved_api_key / elif image is None / else: encode, analyze, `if result:`.
\* encode_image_to_base64 is called outside any try: what it raises aborts the run.
SubmitHandler(key, up, svc, slot) ==
    IF ~Truthy(key)
    THEN Handled(slot, <<MsgNoKey>>, <<>>, FALSE, None)
    ELSE IF up = None
    THEN Handled(slot, <<MsgNoImage>>, <<>>, FALSE, None)
    ELSE LET enc == encode_image_to_base64(up[1])
             call == analyze_building_with_gpt4o(enc.payload[1], key[1], svc)
         IN  IF enc.raised # None
             THEN Handled(slot, <<>>, <<>>, FALSE, enc.raised)
             ELSE IF Truthy(call.result)
             THEN Handled(call.result, call.errors, call.sent, TRUE, None)
             ELSE Handled(slot, call.errors \o <<MsgFailed>>, call.sent, FALSE, None)

\* A script run in which the button is not pressed skips the handler.
NotPressed(slot) == Handled(slot, <<>>, <<>>, FALSE, None)

\* The text the service returned to a request, when it returned a non-empty one.
ReturnedText(svc) ==
    IF svc.raises = None /\ svc.choices # <<>> /\ Truthy(svc.choices[1])
    THEN svc.choices[1] ELSE None

\* One execution of the script from the submit handler on; the results column
\* (`with col7`) runs only when nothing above it raised.
ScriptRun(h, svc) ==
    /\ analysis_result' = h.analysis_result
    /\ errors' = h.errors
    /\ sent' = h.sent
    /\ success' = h.success
    /\ uncaught' = h.uncaught
    /\ response' = IF h.sent # <<>> THEN Some(svc) ELSE None
    /\ latest' = IF h.sent # <<>> /\ ReturnedText(svc) # None THEN ReturnedText(svc) ELSE latest
    /\ rendered' = IF h.uncaught = None THEN h.analysis_result ELSE None
    /\ download' = IF h.uncaught = None THEN h.analysis_result ELSE None
    /\ previous' = analysis_result

-----------------------------------------------------------------------------
(* Actions: one widget interaction and the script run it triggers *)

NoResponse == Returns(<<>>)

EnterApiKey(k) ==
    /\ k # user_api_key
    /\ user_api_key' = k
    /\ clicked' = FALSE
    /\ ScriptRun(NotPressed(analysis_result), NoResponse)
    /\ UNCHANGED <<secrets, env, uploaded>>

Upload(img) ==
    /\ uploaded # Some(img)
    /\ uploaded' = Some(img)
    /\ clicked' = FALSE
    /\ ScriptRun(NotPressed(analysis_result), NoResponse)
    /\ UNCHANGED <<secrets, env, user_api_key>>

RemoveUpload ==
    /\ uploaded # None
    /\ uploaded' = None
    /\ clicked' = FALSE
    /\ ScriptRun(NotPressed(analysis_result), NoResponse)
    /\ UNCHANGED <<secrets, env, user_api_key>>

Submit(svc) ==
    /\ clicked' = TRUE
    /\ ScriptRun(SubmitHandler(resolved_api_key(user_api_key, secrets, env),
                               uploaded, svc, analysis_result), svc)
    /\ UNCHANGED <<secrets, env, user_api_key, uploaded>>

\* The page after its first run: nothing entered, nothing uploaded, no result.
Blank ==
    /\ user_api_key = ""
    /\ analysis_result = None
    /\ clicked = FALSE
    /\ response = None
    /\ sent = <<>>
    /\ errors = <<>>
    /\ success = FALSE
    /\ uncaught = None
    /\ rendered = None
    /\ download = None
    /\ latest = None
    /\ previous = None

Init ==
    /\ secrets \in SecretValues
    /\ env \in EnvValues
    /\ uploaded = None
    /\ Blank

Next ==
    \/ \E k \in UiKeys : EnterApiKey(k)
    \/ \E img \in Uploads : Upload(img)
    \/ RemoveUpload
    \/ \E svc \in Responses : Submit(svc)

Spec == Init /\ [][Next]_vars

\* The normalizer alone: any picture already uploaded, a key in the environment,
\* and a service that answers.
InitNorm ==
    /\ secrets = None
    /\ env = Some("sk-env")
    /\ uploaded \in {Some(img) : img \in NormUploads}
    /\ Blank

NextNorm == Submit(Returns(<<Some("alpha")>>))

SpecNorm == InitNorm /\ [][NextNorm]_vars

-----------------------------------------------------------------------------
(* Properties *)

\* No provider yields a usable key.
NoCredential == user_api_key = "" /\ ~Truthy(secrets) /\ ~Truthy(env)

\* The first st.error of the last run is one of the six conditions' messages.
TypedPrefixes == {MsgApi("")[1], MsgUnexpected("")[1]}
FailedWithCondition ==
    /\ errors # <<>>
    /\ \/ errors[1] \in {MsgNoKey, MsgNoImage, MsgAuth, MsgRate}
       \/ errors[1][1] \in TypedPrefixes

\* C1: a submit with no resolvable credential, with or without an image, sends no
\* request, does not reach the Requester, and reports only the missing credential.
C1_NoCredentialNoRequest ==
    (clicked /\ NoCredential) =>
        /\ sent = <<>>
        /\ response = None
        /\ errors = <<MsgNoKey>>
        /\ ~success
        /\ uncaught = None

C1_Witness ==
    clicked /\ NoCredential /\ uploaded # None /\ errors = <<MsgNoKey>> /\ sent = <<>>

\* C2 as stated: a submit with no image reports the missing image whatever the
\* credential's state, and sends no request.
C2_MissingImageAlways ==
    (clicked /\ uploaded = None) => (sent = <<>> /\ errors = <<MsgNoImage>>)

\* C2 amended: a submit with no image never sends a request; it reports the missing
\* image when a credential is resolvable and the missing credential when none is.
C2_MissingImageAfterCredential ==
    (clicked /\ uploaded = None) =>
        /\ sent = <<>>
        /\ response = None
        /\ errors = <<IF NoCredential THEN MsgNoKey ELSE MsgNoImage>>

C2_Witness ==
    clicked /\ uploaded = None /\ ~NoCredential /\ errors = <<MsgNoImage>> /\ sent = <<>>

\* C3: a submission that fails with one of the six conditions leaves the stored
\* result as it was before the submission, present or absent.
C3_FailureKeepsResult ==
    (clicked /\ FailedWithCondition) => analysis_result = previous

C3_Witness ==
    /\ clicked
    /\ errors # <<>> /\ errors[1] = MsgRate
    /\ previous = Some("alpha")
    /\ analysis_result = Some("alpha")

\* C4: the stored result is exactly the text of the most recent successful
\* submission, and the results column shows and offers for download that same text.
C4_LatestSubmitWins ==
    /\ analysis_result = latest
    /\ (clicked /\ success) => (analysis_result = ReturnedText(response[1]))
    /\ uncaught = None => (rendered = analysis_result /\ download = analysis_result)

C4_Witness ==
    /\ clicked /\ success
    /\ previous = Some("alpha")
    /\ analysis_result = Some("beta")
    /\ rendered = Some("beta")
    /\ download = Some("beta")

\* The exception the Requester's try block ended with, if any.
RaisedInCall ==
    IF response = None THEN None
    ELSE IF response[1].raises # None THEN response[1].raises
    ELSE IF response[1].choices = <<>> THEN Some("IndexError")
    ELSE None

ApiSideOther == {"PermissionDeniedError", "BadRequestError", "InternalServerError",
                 "APIStatusError", "APIConnectionError", "APITimeoutError", "APIError"}

\* C5: every exception of the Requester call is reported by exactly one of four
\* pairwise distinct messages, the most specific one that applies.
C5_FailureClassified ==
    /\ Cardinality({MsgAuth[1], MsgRate[1], MsgApi("")[1], MsgUnexpected("")[1]}) = 4
    /\ (clicked /\ RaisedInCall # None) =>
          LET e == RaisedInCall[1]
          IN  errors = << CASE e = "AuthenticationError" -> MsgAuth
                            [] e = "RateLimitError" -> MsgRate
                            [] e \in ApiSideOther -> MsgApi(e)
                            [] OTHER -> MsgUnexpected(e),
                          MsgFailed >>

C5_Witness ==
    /\ clicked
    /\ response # None /\ response[1].raises = Some("RateLimitError")
    /\ errors = <<MsgRate, MsgFailed>>

\* C6 as stated: every submit with a resolvable credential and an uploaded image
\* sends exactly one request.
C6_ExactlyOneRequest ==
    (clicked /\ ~NoCredential /\ uploaded # None) => Len(sent) = 1

C8_NormalizedSize ==
    (clicked /\ sent # <<>>) =>
        LET w == uploaded[1].w
            h == uploaded[1].h
            ow == sent[1].image.size[1]
            oh == sent[1].image.size[2]
        IN  IF w <= 1024 /\ h <= 1024
            THEN ow = w /\ oh = h
            ELSE /\ ow \in 1..1024
                 /\ oh \in 1..1024
                 /\ \/ Abs(ow * h - oh * w) < h
                    \/ Abs(ow * h - oh * w) < w

C8_Witness ==
    /\ clicked /\ sent # <<>>
    /\ uploaded[1].w = 3000 /\ uploaded[1].h = 1029
    /\ sent[1].image.size = <<1024, 351>>

\* C9 as stated: the normalizer yields a JPEG payload for a picture of any size and
\* colour mode, so every submit with a credential and an image reaches the Requester
\* with that payload and ends in a stored result or a reported failure, never in an
\* exception nobody catches.
C9_NoErrorPath ==
    (clicked /\ ~NoCredential /\ uploaded # None) =>
        /\ uncaught = None
        /\ sent # <<>>
        /\ sent[1].image.format = "JPEG"
        /\ \/ success /\ analysis_result # None
           \/ errors # <<>>

\* A first message whose content is None or "".
EmptyAnswer ==
    /\ response # None
    /\ response[1].raises = None
    /\ response[1].choices # <<>>
    /\ response[1].choices[1] \in {None, Some("")}

\* C10: a stored result is never empty; an answer whose first message has no text
\* gives only the generic failure message and leaves the stored result as it was.
C10_StoredResultNonEmpty ==
    /\ analysis_result # None => analysis_result[1] # ""
    /\ (clicked /\ EmptyAnswer) =>
          /\ errors = <<MsgFailed>>
          /\ ~success
          /\ analysis_result = previous

C10_Witness ==
    /\ clicked /\ EmptyAnswer
    /\ response[1].choices[1] = Some("")
    /\ previous = Some("alpha")
    /\ analysis_result = Some("alpha")
    /\ errors = <<MsgFailed>>

====
